---- MODULE Spec2Model ----
(***************************************************************************)
(* A model of the Plyr facade (src/plyr1.js): construction and setup, the  *)
(* play() future, listener registration and the destroy() teardown.        *)
(*                                                                         *)
(* One Instance is modelled.  JavaScript runs one task at a time; a        *)
(* reaction attached with .then() runs later, as a microtask, so every     *)
(* such reaction is a job of the queue `microtasks` and runs in its own    *)
(* action.  setup() is followed statement by statement (`pc`), because     *)
(* the listeners bound at its second statement can run while the later     *)
(* statements are still to come.                                           *)
(***************************************************************************)
EXTENDS Integers, Sequences, FiniteSets

\* ------------------------------------------------------------------ bounds
MaxPlay      == 2   \* calls of play()
MaxDestroy   == 1   \* calls of destroy()
MaxListeners == 1   \* listeners registered through on()/once()

\* ------------------------------------------------------- JavaScript values
JSNull      == [t |-> "null",   n |-> 0, s |-> ""]
JSNum(k)    == [t |-> "number", n |-> k, s |-> ""]

\* The decimal digits of a natural number below 10 (all the model needs).
Digit(k) == CASE k = 0 -> "0" [] k = 1 -> "1" [] k = 2 -> "2" [] k = 3 -> "3"
              [] k = 4 -> "4" [] k = 5 -> "5" [] k = 6 -> "6" [] k = 7 -> "7"
              [] k = 8 -> "8" [] OTHER -> "9"

\* ToString of the language, as setAttribute applies it to its value argument.
toDOMString(v) ==
  CASE v.t = "null"   -> "null"
    [] v.t = "number" -> IF v.n < 0 THEN "-" \o Digit(-v.n) ELSE Digit(v.n)
    [] OTHER          -> v.s

\* ------------------------------------------------------ element attributes
AttrNames == {"data-plyr", "tabindex"}
Absent     == [present |-> FALSE, value |-> ""]
Present(x) == [present |-> TRUE,  value |-> x]

setAttribute(a, name, v) == [a EXCEPT ![name] = Present(toDOMString(v))]
removeAttribute(a, name) == [a EXCEPT ![name] = Absent]

\* --------------------------------------------------------------- listeners
EventTypes == {"ready", "playing"}

\* utils/events on / once: one more bound listener.
on(ls, id, origin, event)   == ls \cup {[id |-> id, origin |-> origin, event |-> event, once |-> FALSE]}
once(ls, id, origin, event) == ls \cup {[id |-> id, origin |-> origin, event |-> event, once |-> TRUE]}
\* utils/events off: the listener is no longer bound.
off(ls, id) == {l \in ls : l.id # id}
\* utils/events unbindListeners: every listener of the Instance is unbound.
unbindListeners(ls) == {}
\* The listeners an event dispatched on the container reaches.
listening(ls, event) == {l \in ls : l.event = event}

\* ------------------------------------------------------------------- setup
Subsystems == {"source", "fullscreen", "captions", "controls", "ads",
               "previewThumbnails", "storage", "console"}

\* setup() with the listeners bound after the Source is constructed.
SetupOrder_BindLate ==
  << "container", "ui", "media", "source", "bind", "fullscreen", "captions",
     "controls", "ads", "previewThumbnails", "storage", "console", "ready" >>

\* setup() with `ready` set before the last two Subsystems are constructed.
SetupOrder_ReadyEarly ==
  << "container", "bind", "ui", "media", "source", "fullscreen", "captions",
     "controls", "ads", "previewThumbnails", "ready", "storage", "console" >>

\* The statements of setup(), in the order of the code.
SetupOrder == << "container", "bind", "ui", "media", "source", "fullscreen",
                 "captions", "controls", "ads", "previewThumbnails", "storage",
                 "console", "ready" >>

Failed == 0
Done   == Len(SetupOrder) + 1

\* destroy() without the call of unbindListeners.
TeardownOrder_NoUnbind == << "reset", "restore", "ready" >>

\* destroy() clearing `ready` first.
TeardownOrder_ReadyFirst == << "ready", "reset", "restore", "unbind" >>

\* The steps of destroy(), in the order of the code.
TeardownOrder == << "reset", "restore", "unbind", "ready" >>

\* ----------------------------------------------------------- configuration
\* A configuration value, or its absence.
NoVal  == [def |-> FALSE, v |-> 0]
Val(x) == [def |-> TRUE,  v |-> x]

\* A nested mapping (here `captions`), or its absence.
NoNested == [def |-> FALSE, active |-> NoVal, language |-> NoVal]

\* A mapping: one plain key and one key holding a nested mapping.
EmptyMapping == [seekTime |-> NoVal, captions |-> NoNested]
Leaves == {"seekTime", "captions.active", "captions.language"}
leafOf(m, leaf) ==
  CASE leaf = "seekTime"         -> m.seekTime
    [] leaf = "captions.active"  -> IF m.captions.def THEN m.captions.active ELSE NoVal
    [] OTHER                     -> IF m.captions.def THEN m.captions.language ELSE NoVal

\* The mappings whose every value is x.
MappingsOf(x) ==
  { [seekTime |-> a, captions |-> c] :
      a \in {NoVal, Val(x)},
      c \in {NoNested} \cup
            { [def |-> TRUE, active |-> y, language |-> z] : y, z \in {NoVal, Val(x)} } }

\* What each source writes where it defines a key, so that a resolved value
\* names the source it came from.
SourceVal(name) ==
  CASE name = "defaults"  -> 10
    [] name = "overrides" -> 20
    [] name = "options"   -> 5
    [] OTHER              -> 15

\* config/defaults: every key defined.
Defaults ==
  [seekTime |-> Val(SourceVal("defaults")),
   captions |-> [def |-> TRUE, active |-> Val(SourceVal("defaults")),
                 language |-> Val(SourceVal("defaults"))]]

\* A value of the language as extend() and JSON.parse() see it.
JSValue(kind, m) == [kind |-> kind, m |-> m]

\* utils/objects extend, one source: a later value replaces an earlier one
\* key by key, a nested mapping is merged into the nested mapping of the
\* target, and a source that is no mapping adds nothing.
mergeVal(tv, sv) == IF sv.def THEN sv ELSE tv
mergeNested(tn, sn) ==
  IF ~sn.def THEN tn
  ELSE [def |-> TRUE, active |-> mergeVal(tn.active, sn.active),
        language |-> mergeVal(tn.language, sn.language)]
extendOne(target, source) ==
  IF source.kind # "mapping" THEN target
  ELSE [seekTime |-> mergeVal(target.seekTime, source.m.seekTime),
        captions |-> mergeNested(target.captions, source.m.captions)]

\* utils/objects extend(target, ...sources)
RECURSIVE extend(_, _)
extend(target, sources) ==
  IF sources = << >> THEN target
  ELSE extend(extendOne(target, Head(sources)), Tail(sources))

\* JSON.parse(this.media.getAttribute('data-plyr-config')) without the
\* try/catch around it.
parseFragment_NoCatch(hasMedia, attr) ==
  CASE ~hasMedia              -> JSValue("raise", EmptyMapping)
    [] attr.raw = "absent"    -> JSValue("null", EmptyMapping)
    [] attr.raw = "malformed" -> JSValue("raise", EmptyMapping)
    [] OTHER                  -> attr.val

\* The last argument of extend() in the constructor: with no media element
\* getAttribute raises, with no attribute it returns null and JSON.parse(null)
\* is null, malformed JSON raises; what is raised is caught and {} returned.
parseFragment(hasMedia, attr) ==
  CASE ~hasMedia              -> JSValue("mapping", EmptyMapping)
    [] attr.raw = "absent"    -> JSValue("null", EmptyMapping)
    [] attr.raw = "malformed" -> JSValue("mapping", EmptyMapping)
    [] OTHER                  -> attr.val

\* options || {}
optionsOrEmpty(options) ==
  IF options.kind \in {"undefined", "null"} THEN JSValue("mapping", EmptyMapping) ELSE options

\* The constructor with the per-element fragment ahead of the caller's options.
resolveConfig_FragmentFirst(in, hasMedia) ==
  [state |-> "resolved",
   m |-> extend(EmptyMapping,
                << JSValue("mapping", Defaults), JSValue("mapping", in.overrides),
                   parseFragment(hasMedia, in.fragment), optionsOrEmpty(in.options) >>)]

\* this.config = extend({}, defaults, Plyr.defaults, options || {}, (() => {...})())
resolveConfig(in, hasMedia) ==
  LET frag == parseFragment(hasMedia, in.fragment) IN
    IF frag.kind = "raise"
      THEN [state |-> "raised", m |-> EmptyMapping]
      ELSE [state |-> "resolved",
            m |-> extend(EmptyMapping,
                         << JSValue("mapping", Defaults), JSValue("mapping", in.overrides),
                            optionsOrEmpty(in.options), frag >>)]

Unset == [state |-> "unset", m |-> EmptyMapping]

\* The per-element attribute: absent, not JSON, or JSON of some value.
Fragments ==
  { [raw |-> r, val |-> JSValue("null", EmptyMapping)] : r \in {"absent", "malformed"} }
    \cup { [raw |-> "json", val |-> JSValue(k, EmptyMapping)] :
             k \in {"null", "number", "string", "list"} }
    \cup { [raw |-> "json", val |-> JSValue("mapping", m)] :
             m \in MappingsOf(SourceVal("fragment")) }

\* The sources a construction can be given.
CfgInputs ==
  [ overrides : MappingsOf(SourceVal("overrides")),
    options   : {JSValue("undefined", EmptyMapping)}
                  \cup { JSValue("mapping", m) : m \in MappingsOf(SourceVal("options")) },
    fragment  : Fragments ]

\* Plyr.defaults = cloneDeep(defaults), no options, no attribute.
PlainCfgInput ==
  [ overrides |-> Defaults,
    options   |-> JSValue("undefined", EmptyMapping),
    fragment  |-> [raw |-> "absent", val |-> JSValue("null", EmptyMapping)] ]

\* ------------------------------------------------------------------- seek
MaxDuration == 30   \* this.media.duration, in seconds

\* What a caller passes to rewind() or forward(): nothing, a number, a string
\* of digits, or NaN.
SeekArg(kind, n) == [kind |-> kind, n |-> n]
SeekArgs ==
  {SeekArg("undefined", 0), SeekArg("string", 5), SeekArg("NaN", 0)}
    \cup {SeekArg("number", n) : n \in {0, 5, 20}}

\* The amount of rewind()/forward() with `seekTime || this.config.seekTime`.
seekAmount_Falsy(arg, cfg) ==
  IF arg.kind = "number" /\ arg.n # 0 THEN arg.n ELSE leafOf(cfg.m, "seekTime").v

\* is.number(seekTime) ? seekTime : this.config.seekTime
seekAmount(arg, cfg) ==
  IF arg.kind = "number" THEN arg.n ELSE leafOf(cfg.m, "seekTime").v

\* rewind(seekTime), forward(seekTime), restart(): the time they assign to
\* this.currentTime, that is to this.media.currentTime.
seekRequest(op, arg, cfg, now) ==
  CASE op = "rewind"  -> now - seekAmount(arg, cfg)
    [] op = "forward" -> now + seekAmount(arg, cfg)
    [] OTHER          -> 0

\* The Provider keeps the time it is assigned within [0, duration].
clamp(time) == IF time < 0 THEN 0 ELSE IF time > MaxDuration THEN MaxDuration ELSE time

\* ----------------------------------------------------------------- target
\* What the caller passes as target.
TargetKinds == {"element", "selector-match", "selector-none", "list", "empty-list"}

\* The constructor, lines 46-56: a selector becomes the list of its matches,
\* a list becomes its first element; of an empty list that is undefined.
resolveTarget(kind) ==
  LET listed == CASE kind = "selector-match" -> "list"
                  [] kind = "selector-none"  -> "empty-list"
                  [] OTHER                   -> kind
  IN  CASE listed = "list"       -> "element"
        [] listed = "empty-list" -> "undefined"
        [] OTHER                 -> listed

\* What the page and the Provider can be like.
Envs ==
  { e \in [targetResolves : BOOLEAN, hasPlay : BOOLEAN, sourceChange : BOOLEAN,
           hasPause : BOOLEAN, target : TargetKinds] :
      e.targetResolves = (resolveTarget(e.target) = "element") }

VARIABLES
  env,          \* what the page and the Provider are like (fixed at construction)
  pc,           \* position in setup(): index into SetupOrder, Done, or Failed
  ready,        \* this.ready
  container,    \* this.elements.container is set
  bindDone,     \* this.listeners.bind() has returned
  ui,           \* the UI is built (ui.setup) and not reset (ui.reset)
  constructed,  \* how many times each Subsystem was constructed
  attrs,        \* the attributes of the target media element
  listeners,    \* the listeners bound for this Instance
  nextId,       \* the next listener's identity
  lastFired,    \* the listeners the last dispatched event reached
  ads,          \* this.ads: the capability block {enabled, active}
  playing,      \* this.media.playing
  plays,        \* one record per call of play()
  destroys,     \* one record per call of destroy()
  microtasks,   \* promise reactions waiting to run
  readyEvents,  \* the `ready` events dispatched
  mediaDone,    \* media.setup has returned: a Provider is bound
  sourceWrite,  \* the last write to the `source` property
  lastPause,    \* the last call of pause()
  fullscreen,   \* this.fullscreen: the capability block {enabled, active}
  fsElement,    \* document.fullscreenElement is set
  lastFs,       \* the last call of toggleFullscreen()
  currentTime,  \* this.media.currentTime
  lastSeek,     \* the last call of rewind(), forward() or restart()
  lastToggle,   \* the last call of toggleCaptions/setCaptions/togglePip/toggleAirplay
  cfgIn,        \* the sources of the configuration
  config        \* this.config

\* The state of construction, listeners, play() and destroy().
base == << env, pc, ready, container, bindDone, ui, constructed, attrs, listeners,
           nextId, lastFired, ads, playing, plays, destroys, microtasks, readyEvents >>

\* The state of the rest of the API.
ext == << lastPause, fullscreen, fsElement, lastFs, currentTime, lastSeek,
          lastToggle, cfgIn, config >>

vars == << base, ext, mediaDone, sourceWrite >>

\* ----------------------------------------------------------- construction
\* The state the constructor leaves just before it calls this.setup(), for
\* an environment of E and sources of C; with `resolved` false, the state
\* before the constructor sets this.config.
InitWith(E, C, resolved) ==
  /\ env \in E
  /\ cfgIn \in C
  /\ config = IF resolved THEN resolveConfig(cfgIn, env.targetResolves) ELSE Unset
  /\ mediaDone = FALSE
  /\ sourceWrite = [by |-> "none", callee |-> "none"]
  /\ lastPause = [made |-> FALSE, playingAt |-> FALSE, pending |-> {}, calls |-> << >>]
  /\ fullscreen = [enabled |-> FALSE, active |-> FALSE]
  /\ fsElement = FALSE
  /\ lastFs = [made |-> FALSE, input |-> "omitted", activeAt |-> FALSE,
               elementAt |-> FALSE, calls |-> << >>]
  /\ currentTime = 0
  /\ lastSeek = [op |-> "none", arg |-> SeekArg("undefined", 0),
                 before |-> 0, requested |-> 0, after |-> 0]
  /\ lastToggle = [method |-> "none", arg |-> "omitted", reached |-> "none"]
  /\ pc = 1
  /\ ready = FALSE
  /\ container = FALSE
  /\ bindDone = FALSE
  /\ ui = FALSE
  /\ constructed = [s \in Subsystems |-> 0]
  /\ attrs = [a \in AttrNames |-> Absent]
  /\ listeners = {}
  /\ nextId = 1
  /\ lastFired = [ids |-> {}, epoch |-> 0]
  /\ ads = [enabled |-> FALSE, active |-> FALSE]
  /\ playing = FALSE
  /\ plays = << >>
  /\ destroys = << >>
  /\ microtasks = << >>
  /\ readyEvents = << >>

PlainEnvs == {e \in Envs : e.target \in {"element", "selector-none"}}

Init == InitWith(Envs, CfgInputs, TRUE)

At(step) == pc \in 1..Len(SetupOrder) /\ SetupOrder[pc] = step

\* The first statements of setup() if reading a property of undefined gave
\* undefined.
SetupContainer_NoTargetCheck ==
  /\ At("container")
  /\ container' = TRUE
  /\ attrs' = setAttribute(attrs, "tabindex", JSNum(-1))
  /\ pc' = pc + 1
  /\ UNCHANGED << env, ready, bindDone, ui, constructed, listeners, nextId,
                  lastFired, ads, playing, plays, destroys, microtasks, readyEvents >>
  /\ UNCHANGED << ext, mediaDone, sourceWrite >>

\* setup(), first statements: the container, its attributes, the tabindex.
\* With no target element, this.media.parentElement raises.
SetupContainer ==
  /\ At("container")
  /\ IF env.targetResolves
       THEN /\ container' = TRUE
            /\ attrs' = setAttribute(attrs, "tabindex", JSNum(-1))
            /\ pc' = pc + 1
       ELSE /\ pc' = Failed
            /\ UNCHANGED << container, attrs >>
  /\ UNCHANGED << env, ready, bindDone, ui, constructed, listeners, nextId,
                  lastFired, ads, playing, plays, destroys, microtasks, readyEvents >>
  /\ UNCHANGED << ext, mediaDone, sourceWrite >>

\* this.listeners.bind()
ListenersBind ==
  /\ At("bind")
  /\ listeners' = on(listeners, nextId, "setup", "playing")
  /\ nextId' = nextId + 1
  /\ bindDone' = TRUE
  /\ pc' = pc + 1
  /\ UNCHANGED << env, ready, container, ui, constructed, attrs, lastFired, ads,
                  playing, plays, destroys, microtasks, readyEvents >>
  /\ UNCHANGED << ext, mediaDone, sourceWrite >>

\* ui.setup.call(this)
UiSetup ==
  /\ At("ui")
  /\ ui' = TRUE
  /\ pc' = pc + 1
  /\ UNCHANGED << env, ready, container, bindDone, constructed, attrs, listeners,
                  nextId, lastFired, ads, playing, plays, destroys, microtasks,
                  readyEvents >>
  /\ UNCHANGED << ext, mediaDone, sourceWrite >>

\* media.setup.call(this)
MediaSetup ==
  /\ At("media")
  /\ pc' = pc + 1
  /\ UNCHANGED << env, ready, container, bindDone, ui, constructed, attrs, listeners,
                  nextId, lastFired, ads, playing, plays, destroys, microtasks,
                  readyEvents >>
  /\ mediaDone' = TRUE
  /\ UNCHANGED << ext, sourceWrite >>

\* get source() { return this.media.source } and
\* set source(source) { this.source.change(source) }: the setter reads the
\* getter, so the routine it calls is the `change` of the Provider's source,
\* and the call raises when that has none.
sourceSetter(hasChange) == IF hasChange THEN "media.source.change" ELSE "TypeError"

\* this.source = new source(this): the Subsystem is constructed, then the
\* assignment runs the `source` setter, this.source.change(...), on what the
\* `source` getter returns, this.media.source; that raises when the Provider's
\* source has no change routine.
SetupSource ==
  /\ At("source")
  /\ constructed' = [constructed EXCEPT !["source"] = @ + 1]
  /\ sourceWrite' = [by |-> "setup", callee |-> sourceSetter(env.sourceChange)]
  /\ pc' = IF sourceWrite'.callee = "TypeError" THEN Failed ELSE pc + 1
  /\ UNCHANGED << env, ready, container, bindDone, ui, attrs, listeners, nextId,
                  lastFired, ads, playing, plays, destroys, microtasks, readyEvents >>
  /\ UNCHANGED << ext, mediaDone >>

\* this.fullscreen = new Fullscreen(this), ..., this.console = new Console(this);
\* the Controls bind a listener of their own.
SetupSubsystem ==
  /\ \E s \in Subsystems \ {"source", "ads"} :
       /\ At(s)
       /\ constructed' = [constructed EXCEPT ![s] = @ + 1]
       /\ IF s = "controls"
            THEN /\ listeners' = on(listeners, nextId, "subsystem", "playing")
                 /\ nextId' = nextId + 1
            ELSE UNCHANGED << listeners, nextId >>
  /\ pc' = pc + 1
  /\ UNCHANGED << env, ready, container, bindDone, ui, attrs, lastFired, ads,
                  playing, plays, destroys, microtasks, readyEvents >>
  /\ UNCHANGED << ext, mediaDone, sourceWrite >>

\* this.ads = new Ads(this): the placeholder block is replaced.
SetupAds ==
  /\ At("ads")
  /\ constructed' = [constructed EXCEPT !["ads"] = @ + 1]
  /\ \E e \in BOOLEAN : ads' = [enabled |-> e, active |-> FALSE]
  /\ pc' = pc + 1
  /\ UNCHANGED << env, ready, container, bindDone, ui, attrs, listeners, nextId,
                  lastFired, playing, plays, destroys, microtasks, readyEvents >>
  /\ UNCHANGED << ext, mediaDone, sourceWrite >>

\* utils/events triggerEvent: the event as dispatched, with the element it
\* is dispatched on and the value of this.ready at that moment.
triggerEvent(target, type, r) == [target |-> target, type |-> type, ready |-> r]

\* The last statements of setup() the other way round: the event first.
SetupReady_EventFirst ==
  /\ At("ready")
  /\ readyEvents' = Append(readyEvents, triggerEvent("media", "ready", ready))
  /\ ready' = TRUE
  /\ pc' = pc + 1
  /\ UNCHANGED << env, container, bindDone, ui, constructed, attrs, listeners,
                  nextId, lastFired, ads, playing, plays, destroys, microtasks >>
  /\ UNCHANGED << ext, mediaDone, sourceWrite >>

\* this.ready = true; triggerEvent.call(this, this.media, 'ready')
SetupReady ==
  /\ At("ready")
  /\ ready' = TRUE
  /\ readyEvents' = Append(readyEvents, triggerEvent("media", "ready", ready'))
  /\ pc' = pc + 1
  /\ UNCHANGED << env, container, bindDone, ui, constructed, attrs, listeners,
                  nextId, lastFired, ads, playing, plays, destroys, microtasks >>
  /\ UNCHANGED << ext, mediaDone, sourceWrite >>

Setup ==
  \/ SetupContainer \/ ListenersBind \/ UiSetup \/ MediaSetup \/ SetupSource
  \/ SetupSubsystem \/ SetupAds \/ SetupReady

\* The constructor has returned or raised: setup() is not running.  The
\* Instance is reachable by its caller and by the listeners bound for it,
\* once it has a target element and a container.
Callable == pc \in {Done, Failed} /\ container

\* -------------------------------------------------------------------- play
\* The Ads test of play() without its second operand.
adsGate_EnabledOnly(a) == a.enabled

\* play(): this.ads.enabled && this.ads.active
adsGate(a) == a.enabled /\ a.active

\* play() with the Ads block ahead of the test of the play capability.
playCalls_CapabilityLast(hasPlay, a) ==
  (IF a.enabled /\ a.active THEN << "ads.play" >> ELSE << >>)
    \o (IF hasPlay THEN << "media.play" >> ELSE << >>)

\* play(): the routines it calls, in the order it calls them.
playCalls(hasPlay, a) ==
  IF ~hasPlay
    THEN << >>
    ELSE (IF adsGate(a) THEN << "ads.play" >> ELSE << >>) \o << "media.play" >>

\* play(focus = true): the default of the parameter.
focusParam(arg) == IF arg = "omitted" THEN TRUE ELSE arg = "true"

\* The reaction of play() with a rejection handler that swallows the refusal.
thenFocus_Swallow(p1, focus) ==
  [p2 |-> "fulfilled", focused |-> focus /\ p1 = "fulfilled"]

\* this.media.play().then(() => { if (focus) container.focus() }): what the
\* reaction does once the Provider's future p1 has settled, and how the future
\* that then() returned settles.
thenFocus(p1, focus) ==
  IF p1 = "fulfilled"
    THEN [p2 |-> "fulfilled", focused |-> focus]
    ELSE [p2 |-> "rejected",  focused |-> FALSE]

\* play(focus): `attach` is whether the caller attaches a rejection handler
\* to the future it gets back.
Play(arg, attach) ==
  /\ Callable
  /\ Len(plays) < MaxPlay
  /\ plays' = Append(plays,
       [ focus   |-> focusParam(arg),
         adsAt   |-> ads,
         calls   |-> playCalls(env.hasPlay, ads),
         ret     |-> IF env.hasPlay THEN "future" ELSE "null",
         p1      |-> IF env.hasPlay THEN "pending" ELSE "none",
         p2      |-> IF env.hasPlay THEN "pending" ELSE "none",
         handler |-> env.hasPlay /\ attach,
         focused |-> FALSE ])
  /\ UNCHANGED << env, pc, ready, container, bindDone, ui, constructed, attrs,
                  listeners, nextId, lastFired, ads, playing, destroys, microtasks,
                  readyEvents >>
  /\ UNCHANGED << ext, mediaDone, sourceWrite >>

\* The Provider settles the future its play routine returned: playback has
\* started, or the backend refuses.  The reaction play() attached is queued.
ProviderSettle(i, ok) ==
  /\ i \in 1..Len(plays)
  /\ plays[i].p1 = "pending"
  /\ plays' = [plays EXCEPT ![i].p1 = IF ok THEN "fulfilled" ELSE "rejected"]
  /\ playing' = (playing \/ ok)
  /\ microtasks' = Append(microtasks, [kind |-> "play", idx |-> i])
  /\ UNCHANGED << env, pc, ready, container, bindDone, ui, constructed, attrs,
                  listeners, nextId, lastFired, ads, destroys, readyEvents >>
  /\ UNCHANGED << ext, mediaDone, sourceWrite >>

\* ------------------------------------------------------------------- pause
\* pause() without the test of the pause capability: calling what is no
\* function raises.
pauseCalls_NoCapabilityCheck(isPlaying, hasPause) ==
  IF ~isPlaying THEN << >>
  ELSE IF hasPause THEN << "media.pause" >> ELSE << "TypeError" >>

\* pause() without the test of this.playing.
pauseCalls_NoPlayingCheck(isPlaying, hasPause) ==
  IF ~hasPause THEN << >> ELSE << "media.pause" >>

\* pause(): if (!this.playing || !is.function(this.media.pause)) return;
\* this.media.pause();
pauseCalls(isPlaying, hasPause) ==
  IF ~isPlaying \/ ~hasPause THEN << >> ELSE << "media.pause" >>

\* The plays whose future the Provider has not settled.
pendingPlays == {i \in 1..Len(plays) : plays[i].p1 = "pending"}

\* pause(); the Provider's pause routine stops playback.
Pause ==
  /\ Callable
  /\ lastPause' = [made |-> TRUE, playingAt |-> playing, pending |-> pendingPlays,
                   calls |-> pauseCalls(playing, env.hasPause)]
  /\ playing' = IF lastPause'.calls = << "media.pause" >> THEN FALSE ELSE playing
  /\ UNCHANGED << env, pc, ready, container, bindDone, ui, constructed, attrs,
                  listeners, nextId, lastFired, ads, plays, destroys, microtasks,
                  readyEvents >>
  /\ UNCHANGED << fullscreen, fsElement, lastFs, currentTime, lastSeek, lastToggle,
                  cfgIn, config, mediaDone, sourceWrite >>

\* ----------------------------------------------------------- configuration
\* The constructor sets this.config.
ResolveConfig ==
  /\ config = Unset
  /\ config' = resolveConfig(cfgIn, env.targetResolves)
  /\ UNCHANGED << base, mediaDone, sourceWrite, lastPause, fullscreen, fsElement,
                  lastFs, currentTime, lastSeek, lastToggle, cfgIn >>

\* -------------------------------------------------------------- fullscreen
\* What a caller passes to a toggle.
ToggleInputs == {"omitted", "true", "false"}

\* A call of a routine of a Subsystem.
Call(fn, arg) == [fn |-> fn, arg |-> arg]

\* toggleFullscreen(input) without its first branch.
fullscreenCalls_AlwaysToggle(isSubsystem, active, element, input) ==
  IF isSubsystem THEN << Call("fullscreen.toggle", input) >>
  ELSE << Call("TypeError", "none") >>

\* toggleFullscreen(input): if (this.fullscreen.active &&
\* !document.fullscreenElement) this.fullscreen.exit(); else
\* this.fullscreen.toggle(input).  The block the constructor leaves in
\* this.fullscreen has no routines: calling one raises.
fullscreenCalls(isSubsystem, active, element, input) ==
  IF ~isSubsystem THEN << Call("TypeError", "none") >>
  ELSE IF active /\ ~element THEN << Call("fullscreen.exit", "none") >>
  ELSE << Call("fullscreen.toggle", input) >>

\* Fullscreen.toggle(input) and Fullscreen.exit(): enter makes the container
\* the fullscreen element of the page, exit ends that; toggle without input
\* does the opposite of the current state.
fullscreenAfter(call, active) ==
  LET enter == CASE call.fn = "fullscreen.exit" -> FALSE
                 [] call.arg = "omitted"        -> ~active
                 [] OTHER                       -> call.arg = "true"
  IN  [active |-> enter, element |-> enter]

\* toggleFullscreen(input)
ToggleFullscreen(input) ==
  /\ Callable
  /\ LET calls == fullscreenCalls(constructed["fullscreen"] > 0, fullscreen.active,
                                  fsElement, input)
         after == fullscreenAfter(calls[1], fullscreen.active)
     IN  /\ lastFs' = [made |-> TRUE, input |-> input, activeAt |-> fullscreen.active,
                       elementAt |-> fsElement, calls |-> calls]
         /\ fullscreen' = IF calls[1].fn = "TypeError" THEN fullscreen
                          ELSE [fullscreen EXCEPT !.active = after.active]
         /\ fsElement' = IF calls[1].fn = "TypeError" THEN fsElement ELSE after.element
  /\ UNCHANGED << base, mediaDone, sourceWrite, lastPause, currentTime, lastSeek,
                  lastToggle, cfgIn, config >>

\* The page leaves fullscreen without the Fullscreen subsystem taking note
\* (document.fullscreenElement becomes null while this.fullscreen.active stays).
PageLeavesFullscreen ==
  /\ fsElement
  /\ fsElement' = FALSE
  /\ UNCHANGED << base, mediaDone, sourceWrite, lastPause, fullscreen, lastFs,
                  currentTime, lastSeek, lastToggle, cfgIn, config >>

\* -------------------------------------------------- rewind, forward, restart
SeekOps == {"rewind", "forward", "restart"}

\* rewind(arg), forward(arg), restart()
Seek(op, arg) ==
  /\ Callable
  /\ (op = "restart") => (arg = SeekArg("undefined", 0))
  /\ LET requested == seekRequest(op, arg, config, currentTime) IN
       /\ currentTime' = clamp(requested)
       /\ lastSeek' = [op |-> op, arg |-> arg, before |-> currentTime,
                       requested |-> requested, after |-> clamp(requested)]
  /\ UNCHANGED << base, mediaDone, sourceWrite, lastPause, fullscreen, fsElement,
                  lastFs, lastToggle, cfgIn, config >>

\* Playback moves the time of the Provider on by a second.
TimeAdvances ==
  /\ Callable
  /\ currentTime < MaxDuration
  /\ currentTime' = currentTime + 1
  /\ UNCHANGED << base, mediaDone, sourceWrite, lastPause, fullscreen, fsElement,
                  lastFs, lastSeek, lastToggle, cfgIn, config >>

\* --------------------------------------------------------------- delegation
\* instance.source = value, by a caller: the `source` setter.
SetSource ==
  /\ Callable
  /\ sourceWrite' = [by |-> "caller", callee |-> sourceSetter(env.sourceChange)]
  /\ UNCHANGED << base, ext, mediaDone >>

ToggleMethods == {"toggleCaptions", "setCaptions", "togglePip", "toggleAirplay"}
Languages == {"en", "fr"}

\* What each method calls: toggleCaptions and setCaptions call a routine of
\* the imported captions module with the Instance as `this`; togglePip and
\* toggleAirplay call the `toggle` of the block held in this.pip / this.airplay.
toggleTarget(method) ==
  CASE method = "toggleCaptions" -> [via |-> "module", block |-> "captions", fn |-> "captions.toggle"]
    [] method = "setCaptions"    -> [via |-> "module", block |-> "captions", fn |-> "captions.set"]
    [] method = "togglePip"      -> [via |-> "block", block |-> "pip", fn |-> "pip.toggle"]
    [] OTHER                     -> [via |-> "block", block |-> "airplay", fn |-> "airplay.toggle"]

\* Whether setup() has put a Subsystem in place of the block the constructor
\* left: it assigns this.fullscreen, this.captions and this.ads, and never
\* this.pip or this.airplay.
blockReplaced(block, built) == block \in Subsystems /\ built[block] > 0

\* Where the call of a method ends: in a routine of a Subsystem, or, the
\* block having no `toggle`, in a TypeError.
toggleReaches(method, built) ==
  LET target == toggleTarget(method) IN
    IF target.via = "module" \/ blockReplaced(target.block, built)
      THEN "subsystem" ELSE "TypeError"

\* toggleCaptions(input), setCaptions(language), togglePip(input),
\* toggleAirplay(input)
Toggle(method, arg) ==
  /\ Callable
  /\ (method = "setCaptions") <=> (arg \in Languages)
  /\ lastToggle' = [method |-> method, arg |-> arg,
                    reached |-> toggleReaches(method, constructed)]
  /\ UNCHANGED << base, mediaDone, sourceWrite, lastPause, fullscreen, fsElement,
                  lastFs, currentTime, lastSeek, cfgIn, config >>

\* The Ads subsystem starts or ends an advertisement.
AdsStateChange ==
  /\ constructed["ads"] > 0
  /\ ads.enabled
  /\ ads' = [ads EXCEPT !.active = ~@]
  /\ UNCHANGED << env, pc, ready, container, bindDone, ui, constructed, attrs,
                  listeners, nextId, lastFired, playing, plays, destroys,
                  microtasks, readyEvents >>
  /\ UNCHANGED << ext, mediaDone, sourceWrite >>

\* --------------------------------------------------------- on / once / off
On(e) ==
  /\ Callable
  /\ nextId <= MaxListeners + 2
  /\ listeners' = on(listeners, nextId, "api", e)
  /\ nextId' = nextId + 1
  /\ UNCHANGED << env, pc, ready, container, bindDone, ui, constructed, attrs,
                  lastFired, ads, playing, plays, destroys, microtasks, readyEvents >>
  /\ UNCHANGED << ext, mediaDone, sourceWrite >>

Once(e) ==
  /\ Callable
  /\ nextId <= MaxListeners + 2
  /\ listeners' = once(listeners, nextId, "api", e)
  /\ nextId' = nextId + 1
  /\ UNCHANGED << env, pc, ready, container, bindDone, ui, constructed, attrs,
                  lastFired, ads, playing, plays, destroys, microtasks, readyEvents >>
  /\ UNCHANGED << ext, mediaDone, sourceWrite >>

Off(id) ==
  /\ Callable
  /\ \E l \in listeners : l.id = id /\ l.origin = "api"
  /\ listeners' = off(listeners, id)
  /\ UNCHANGED << env, pc, ready, container, bindDone, ui, constructed, attrs,
                  nextId, lastFired, ads, playing, plays, destroys, microtasks,
                  readyEvents >>
  /\ UNCHANGED << ext, mediaDone, sourceWrite >>

\* An event of type e is dispatched on the container: every listener bound
\* for it runs, and a once-listener is unbound by running.
Dispatch(e) ==
  /\ container
  /\ lastFired' = [ids   |-> {l.id : l \in listening(listeners, e)},
                   epoch |-> Len(destroys)]
  /\ listeners' = {l \in listeners : ~(l.event = e /\ l.once)}
  /\ UNCHANGED << env, pc, ready, container, bindDone, ui, constructed, attrs,
                  nextId, ads, playing, plays, destroys, microtasks, readyEvents >>
  /\ UNCHANGED << ext, mediaDone, sourceWrite >>

\* ----------------------------------------------------------------- destroy
\* The steps the executor of destroy()'s promise completes when step number
\* failAt raises (0: none does).
stepsRun(failAt) ==
  IF failAt = 0 THEN TeardownOrder ELSE SubSeq(TeardownOrder, 1, failAt - 1)

Ran(log, step) == \E k \in 1..Len(log) : log[k] = step

\* The media element's attributes after the "restore" step.
restoreAttributes(a) ==
  removeAttribute(setAttribute(a, "data-plyr", JSNull), "tabindex")

\* destroy(callback): the executor runs at once, inside new Promise(...); an
\* exception in it rejects the promise instead of resolving it.  then(callback)
\* queues the reaction, the promise being settled already.
Destroy(cb, failAt) ==
  /\ Callable
  /\ Len(destroys) < MaxDestroy
  /\ LET log == stepsRun(failAt) IN
       /\ ui' = IF Ran(log, "reset") THEN FALSE ELSE ui
       /\ attrs' = IF Ran(log, "restore") THEN restoreAttributes(attrs) ELSE attrs
       /\ listeners' = IF Ran(log, "unbind") THEN unbindListeners(listeners) ELSE listeners
       /\ ready' = IF Ran(log, "ready") THEN FALSE ELSE ready
       /\ destroys' = Append(destroys,
            [ cb        |-> cb,
              log       |-> log,
              idsBefore |-> nextId,
              d1        |-> IF failAt = 0 THEN "fulfilled" ELSE "rejected",
              d2        |-> "pending",
              cbRan     |-> FALSE ])
       /\ microtasks' = Append(microtasks, [kind |-> "destroy", idx |-> Len(destroys) + 1])
  /\ UNCHANGED << env, pc, container, bindDone, constructed, nextId, lastFired,
                  ads, playing, plays, readyEvents >>
  /\ UNCHANGED << ext, mediaDone, sourceWrite >>

\* then(callback): with the promise fulfilled the callback runs, if there is
\* one; with it rejected the rejection passes to the promise then() returned.
thenCallback(d1, cb) ==
  IF d1 = "fulfilled"
    THEN [d2 |-> "fulfilled", cbRan |-> cb]
    ELSE [d2 |-> "rejected",  cbRan |-> FALSE]

\* -------------------------------------------------------------- microtasks
\* The oldest queued reaction runs.
RunMicrotask ==
  /\ microtasks # << >>
  /\ LET job == Head(microtasks) IN
       IF job.kind = "play"
         THEN LET r == thenFocus(plays[job.idx].p1, plays[job.idx].focus) IN
                /\ plays' = [plays EXCEPT ![job.idx].p2 = r.p2,
                                          ![job.idx].focused = r.focused]
                /\ UNCHANGED destroys
         ELSE LET r == thenCallback(destroys[job.idx].d1, destroys[job.idx].cb) IN
                /\ destroys' = [destroys EXCEPT ![job.idx].d2 = r.d2,
                                                ![job.idx].cbRan = r.cbRan]
                /\ UNCHANGED plays
  /\ microtasks' = Tail(microtasks)
  /\ UNCHANGED << env, pc, ready, container, bindDone, ui, constructed, attrs,
                  listeners, nextId, lastFired, ads, playing, readyEvents >>
  /\ UNCHANGED << ext, mediaDone, sourceWrite >>

FocusArgs == {"omitted", "true", "false"}

\* The calls and events around listeners and destroy().
Teardown ==
  \/ \E e \in EventTypes : On(e) \/ Once(e) \/ Dispatch(e)
  \/ \E id \in 1..(MaxListeners + 2) : Off(id)
  \/ \E cb \in BOOLEAN, failAt \in 0..(Len(TeardownOrder) - 1) : Destroy(cb, failAt)

\* The calls and events around play().
Playback ==
  \/ \E arg \in FocusArgs, attach \in BOOLEAN : Play(arg, attach)
  \/ \E i \in 1..MaxPlay, ok \in BOOLEAN : ProviderSettle(i, ok)
  \/ AdsStateChange

\* play() and pause() against each other.
PauseRace ==
  \/ Play("omitted", TRUE)
  \/ \E i \in 1..MaxPlay, ok \in BOOLEAN : ProviderSettle(i, ok)
  \/ Pause

FullscreenOps ==
  \/ \E input \in ToggleInputs : ToggleFullscreen(input)
  \/ PageLeavesFullscreen

SeekOperations ==
  \/ \E op \in SeekOps, arg \in SeekArgs : Seek(op, arg)
  \/ TimeAdvances

Delegation ==
  \/ SetSource
  \/ \E method \in ToggleMethods, arg \in ToggleInputs \cup Languages : Toggle(method, arg)

Next ==
  Setup \/ Delegation \/ Teardown \/ Playback \/ PauseRace \/ FullscreenOps \/ SeekOperations
    \/ ResolveConfig \/ RunMicrotask

Spec == Init /\ [][Next]_vars

\* play() reads and writes nothing that on/once/off or destroy() write, and
\* the other way round, so each of the two groups is also checked on its own,
\* with larger bounds than their product allows.
NextTeardown == Setup \/ Teardown \/ RunMicrotask
\* Nothing of this group consults the Provider's play capability.
InitTeardown ==
  InitWith({e \in PlainEnvs : e.hasPlay /\ e.hasPause}, {PlainCfgInput}, TRUE)
SpecTeardown == InitTeardown /\ [][NextTeardown]_vars

NextPlayback == Setup \/ Playback \/ RunMicrotask
InitPlayback == InitWith({e \in PlainEnvs : e.hasPause}, {PlainCfgInput}, TRUE)
SpecPlayback == InitPlayback /\ [][NextPlayback]_vars

NextFullscreen == Setup \/ FullscreenOps
SpecFullscreen == InitWith(PlainEnvs, {PlainCfgInput}, TRUE) /\ [][NextFullscreen]_vars

\* Sources whose options set the seek amount, and sources that leave it to
\* the defaults.
SeekCfgInputs ==
  { PlainCfgInput,
    [PlainCfgInput EXCEPT
       !.options = JSValue("mapping",
                     [EmptyMapping EXCEPT !.seekTime = Val(SourceVal("options"))])] }
NextSeek == Setup \/ SeekOperations
SpecSeek ==
  InitWith({e \in PlainEnvs : e.hasPlay /\ e.hasPause}, SeekCfgInputs, TRUE)
    /\ [][NextSeek]_vars

\* The constructor up to this.config, for every combination of sources.
InitConfig ==
  InitWith({e \in PlainEnvs : e.hasPlay /\ e.hasPause /\ e.sourceChange}, CfgInputs, FALSE)
SpecConfig == InitConfig /\ [][ResolveConfig]_vars

\* The constructor alone, for every kind of target.
SpecConstruct == InitWith(Envs, {PlainCfgInput}, TRUE) /\ [][Setup]_vars

NextDelegation == Setup \/ Delegation
SpecDelegation == InitWith(PlainEnvs, {PlainCfgInput}, TRUE) /\ [][NextDelegation]_vars

NextPause == Setup \/ PauseRace \/ RunMicrotask
InitPause == InitWith({e \in PlainEnvs : e.hasPlay}, {PlainCfgInput}, TRUE)
SpecPause == InitPause /\ [][NextPause]_vars

\* ================================================================== claims
settled(p) == p \in {"fulfilled", "rejected"}
IsPrefix(s, u) == Len(s) <= Len(u) /\ \A k \in 1..Len(s) : s[k] = u[k]

\* C1: every destroy(callback) with a callback ends with the callback invoked,
\* also when a teardown step raised: once the reaction queued by then(callback)
\* has run (nothing else can invoke the callback), the callback has run.
C1_CallbackAlwaysInvoked ==
  \A i \in 1..Len(destroys) :
    (destroys[i].cb /\ settled(destroys[i].d2)) => destroys[i].cbRan

\* C2: after destroy() has resolved, the media element carries neither the
\* data-plyr attribute nor the tabindex attribute: both are absent.
C2_AttributesAbsentAfterDestroy ==
  \A i \in 1..Len(destroys) :
    destroys[i].d1 = "fulfilled" =>
      /\ ~attrs["data-plyr"].present
      /\ ~attrs["tabindex"].present

\* C3: after destroy() has completed, no listener registered before it (at
\* setup, by a Subsystem, through on/once) is still bound, and no such listener
\* runs for an event dispatched on the container afterwards.
C3_NoResidualListeners ==
  \A i \in 1..Len(destroys) :
    destroys[i].d1 = "fulfilled" =>
      /\ \A l \in listeners : l.id >= destroys[i].idsBefore
      /\ lastFired.epoch >= i => \A id \in lastFired.ids : id >= destroys[i].idsBefore

\* C3's case: listeners were bound at setup, destroy() completed, a listener
\* registered after it, and an event dispatched after it reached only that one.
C3_Witness ==
  /\ Len(destroys) >= 1
  /\ destroys[1].d1 = "fulfilled"
  /\ destroys[1].idsBefore >= 3
  /\ lastFired.epoch >= 1
  /\ lastFired.ids # {}

\* The order of the teardown steps as the specification gives it (4.5).
C4_Order == << "reset", "restore", "unbind", "ready" >>

\* C4: the teardown steps run in the order reset UI, restore attributes, unbind
\* listeners, ready := false; the callback runs only in a later reaction, never
\* inside the call of destroy(), and whenever it runs the four steps are done
\* and ready is false.
C4_CallbackAfterTeardown ==
  [][ \A i \in 1..Len(destroys') :
        /\ IsPrefix(destroys'[i].log, C4_Order)
        /\ i > Len(destroys) => ~destroys'[i].cbRan
        /\ (i <= Len(destroys) /\ destroys'[i].cbRan /\ ~destroys[i].cbRan) =>
             /\ destroys[i].log = C4_Order
             /\ ~ready /\ ~ready'
             /\ microtasks # << >> /\ Head(microtasks) = [kind |-> "destroy", idx |-> i]
    ]_vars

\* C4's case: a callback has run.
C4_Witness == \E i \in 1..Len(destroys) : destroys[i].cbRan

\* C5: ready = true only when setup() has run to its end: bind() has returned
\* and every Subsystem has been constructed; ready is false until the last
\* statement of setup().
C5_ReadyOnlyAfterSetup ==
  ready => /\ pc = Done
           /\ bindDone
           /\ \A s \in Subsystems : constructed[s] >= 1

\* C5's case: construction succeeded and ready is true.
C5_Witness == ready /\ pc = Done /\ constructed["console"] = 1

\* C6, as stated: the `ready` event is fired exactly once per successful
\* construction, never otherwise, on the container element, with ready
\* already true.
C6_ReadyEventOnceOnContainer ==
  /\ Len(readyEvents) = (IF pc = Done THEN 1 ELSE 0)
  /\ \A k \in 1..Len(readyEvents) :
       /\ readyEvents[k].type = "ready"
       /\ readyEvents[k].target = "container"
       /\ readyEvents[k].ready

\* C6, amended: the `ready` event is fired exactly once per successful
\* construction, never otherwise, on the target media element (not on the
\* container), with ready already true.
C6_ReadyEventOnceOnMedia ==
  /\ Len(readyEvents) = (IF pc = Done THEN 1 ELSE 0)
  /\ \A k \in 1..Len(readyEvents) :
       /\ readyEvents[k].type = "ready"
       /\ readyEvents[k].target = "media"
       /\ readyEvents[k].ready

\* C6's case: construction succeeded, the event was dispatched, and the
\* Instance was destroyed afterwards.
C6_Witness ==
  /\ pc = Done
  /\ Len(readyEvents) = 1
  /\ \E i \in 1..Len(destroys) : destroys[i].d1 = "fulfilled"

\* C7: play() with the Ads block enabled and active calls the Ads play routine
\* and then the Provider's; with the block not enabled or not active (the
\* placeholder of the constructor included) it calls the Provider's alone.
C7_AdsBeforeProvider ==
  \A i \in 1..Len(plays) :
    plays[i].ret = "future" =>
      plays[i].calls =
        IF plays[i].adsAt.enabled /\ plays[i].adsAt.active
          THEN << "ads.play", "media.play" >>
          ELSE << "media.play" >>

\* C7's case: one play() with an advertisement active, and one without.
C7_Witness ==
  /\ \E i \in 1..Len(plays) : plays[i].calls = << "ads.play", "media.play" >>
  /\ \E i \in 1..Len(plays) : plays[i].ret = "future" /\ ~plays[i].adsAt.active

\* C8: with a Provider that has no play capability, play() returns null, calls
\* no routine of the Ads subsystem or of the Provider, and changes nothing of
\* the Provider or of the Instance.
C8_NoPlayCapability ==
  [][ (Len(plays') > Len(plays) /\ ~env.hasPlay) =>
        /\ plays'[Len(plays')].ret = "null"
        /\ plays'[Len(plays')].calls = << >>
        /\ plays'[Len(plays')].p1 = "none"
        /\ UNCHANGED << ready, ui, attrs, listeners, ads, playing, microtasks >>
    ]_vars

\* C8's case: play() was called without the capability while an advertisement
\* was active.
C8_Witness ==
  /\ ~env.hasPlay
  /\ \E i \in 1..Len(plays) : plays[i].adsAt.enabled /\ plays[i].adsAt.active

\* C9: when the Provider's future rejects, the future play() returned rejects;
\* the container is focused only if the Provider's future resolved and focus
\* is true.
C9_RejectionSurfaces ==
  \A i \in 1..Len(plays) :
    /\ (plays[i].p1 = "rejected" /\ settled(plays[i].p2)) => plays[i].p2 = "rejected"
    /\ plays[i].focused => (plays[i].p1 = "fulfilled" /\ plays[i].focus)

\* C9's case: one play() was refused and its future has rejected, another was
\* focused.
C9_Witness ==
  /\ \E i \in 1..Len(plays) : plays[i].p1 = "rejected" /\ plays[i].p2 = "rejected"
  /\ \E i \in 1..Len(plays) : plays[i].focused

\* C10: when the Provider's future rejects and the caller attaches no
\* rejection handler, no future created inside play() ends rejected with no
\* handler attached.
C10_NoUnhandledRejection ==
  \A i \in 1..Len(plays) :
    (plays[i].p1 = "rejected" /\ ~plays[i].handler) => plays[i].p2 # "rejected"

\* C11: pause() calls the Provider's pause routine exactly when the Instance is
\* playing and the Provider has a pause capability; otherwise it returns
\* without raising and leaves the state of the Provider as it was.
C11_PauseIffPlayingAndCapable ==
  [][ lastPause' # lastPause =>
        /\ lastPause'.playingAt = playing
        /\ (lastPause'.calls = << "media.pause" >>) <=> (playing /\ env.hasPause)
        /\ ~(playing /\ env.hasPause) =>
              /\ lastPause'.calls = << >>
              /\ playing' = playing
              /\ plays' = plays
              /\ currentTime' = currentTime ]_vars

C11_Witness ==
  /\ lastPause.made /\ lastPause.playingAt /\ env.hasPause
  /\ lastPause.calls = << "media.pause" >>
  /\ ~playing

\* C20: a pause() made while a play() is pending and the Provider is not yet
\* playing calls no pause routine and cancels nothing; when the Provider later
\* fulfils that play, the Provider is playing.
C20_PauseBeforePlayingHasNoEffect ==
  [][ /\ (lastPause' # lastPause /\ ~playing /\ pendingPlays # {}) =>
             /\ lastPause'.calls = << >>
             /\ plays' = plays
             /\ ~playing'
      /\ \A i \in lastPause.pending :
           (~lastPause.playingAt /\ plays[i].p1 = "pending" /\ plays'[i].p1 = "fulfilled")
             => playing' ]_vars

C20_Witness ==
  /\ lastPause.made /\ ~lastPause.playingAt /\ lastPause.calls = << >>
  /\ \E i \in lastPause.pending : plays[i].p1 = "fulfilled"
  /\ playing

\* C12: toggleFullscreen(input), made while this.fullscreen.active is true and
\* the page has no fullscreen element, calls the exit of the Fullscreen
\* subsystem and no toggle, whatever the input; in every other state it calls
\* the toggle of the Fullscreen subsystem with the input, and no exit.
C12_DesyncExitsElseToggles ==
  (lastFs.made /\ constructed["fullscreen"] > 0) =>
    IF lastFs.activeAt /\ ~lastFs.elementAt
      THEN lastFs.calls = << [fn |-> "fullscreen.exit", arg |-> "none"] >>
      ELSE lastFs.calls = << [fn |-> "fullscreen.toggle", arg |-> lastFs.input] >>

C12_Witness ==
  /\ lastFs.made /\ lastFs.activeAt /\ ~lastFs.elementAt /\ lastFs.input = "true"
  /\ lastFs.calls = << [fn |-> "fullscreen.exit", arg |-> "none"] >>
  /\ ~fullscreen.active

\* C13: rewind(s) and forward(s) request the current time minus and plus s
\* when s is a number, and minus and plus the configured seek amount when s
\* is no number or is omitted; with a Provider that keeps the time within
\* [0, duration] the current time is never negative: rewind(5) from 10 gives
\* 5, rewind(20) from 10 gives 0.
C13_SeekAmountAndNonNegative ==
  LET amount == IF lastSeek.arg.kind = "number" THEN lastSeek.arg.n
                ELSE config.m.seekTime.v
  IN  /\ currentTime >= 0
      /\ lastSeek.op = "rewind"  => lastSeek.requested = lastSeek.before - amount
      /\ lastSeek.op = "forward" => lastSeek.requested = lastSeek.before + amount
      /\ lastSeek.op # "none" => lastSeek.after >= 0
      /\ (lastSeek.op = "rewind" /\ lastSeek.before = 10
            /\ lastSeek.arg = [kind |-> "number", n |-> 5]) => lastSeek.after = 5
      /\ (lastSeek.op = "rewind" /\ lastSeek.before = 10
            /\ lastSeek.arg = [kind |-> "number", n |-> 20]) => lastSeek.after = 0

C13_Witness ==
  /\ lastSeek.op = "rewind" /\ lastSeek.before = 10
  /\ lastSeek.arg = [kind |-> "number", n |-> 20]
  /\ lastSeek.requested < 0
  /\ currentTime = 0

\* The per-element fragment as a source: a mapping only when the element
\* exists and its attribute holds the JSON of a mapping.
fragmentIsMapping ==
  env.targetResolves /\ cfgIn.fragment.raw = "json" /\ cfgIn.fragment.val.kind = "mapping"

\* C14: every leaf key of the resolved configuration has the value of the
\* last source that defines it, in the order defaults, static overrides,
\* caller options, per-element fragment; a nested mapping is merged key by
\* key and not replaced as a whole.
C14_LastDefiningSourceWins ==
  config.state = "resolved" =>
    \A leaf \in Leaves :
      LET f == IF fragmentIsMapping THEN leafOf(cfgIn.fragment.val.m, leaf) ELSE NoVal
          o == IF cfgIn.options.kind = "mapping" THEN leafOf(cfgIn.options.m, leaf)
               ELSE NoVal
          s == leafOf(cfgIn.overrides, leaf)
      IN  leafOf(config.m, leaf) =
            IF f.def THEN f ELSE IF o.def THEN o ELSE IF s.def THEN s
            ELSE leafOf(Defaults, leaf)

\* C14's case: one nested mapping holds a key from the fragment and a key
\* from the options, next to a plain key from the static overrides.
C14_Witness ==
  /\ config.state = "resolved"
  /\ config.m.captions.active = [def |-> TRUE, v |-> 15]
  /\ config.m.captions.language = [def |-> TRUE, v |-> 5]
  /\ config.m.seekTime = [def |-> TRUE, v |-> 20]

\* C15: a fragment that is absent, is no JSON, or is the JSON of something
\* that is no mapping raises nothing, and the resolved configuration is that
\* of the defaults, the static overrides and the caller options alone.
C15_BadFragmentIsEmpty ==
  (config # Unset /\ ~fragmentIsMapping) =>
    /\ config.state = "resolved"
    /\ config.m = extend(EmptyMapping,
                         << [kind |-> "mapping", m |-> Defaults],
                            [kind |-> "mapping", m |-> cfgIn.overrides],
                            IF cfgIn.options.kind = "mapping" THEN cfgIn.options
                            ELSE [kind |-> "mapping", m |-> EmptyMapping] >>)

C15_Witness ==
  /\ config.state = "resolved"
  /\ env.targetResolves
  /\ cfgIn.fragment.raw = "malformed"
  /\ cfgIn.options.kind = "mapping" /\ cfgIn.options.m.seekTime.def
  /\ config.m.seekTime.v = 5

\* C16: with a target that resolves to no element (a selector matching
\* nothing, an empty collection) construction ends in an error raised to the
\* caller: ready never becomes true, no `ready` event is dispatched, no
\* listener is bound and no Subsystem is constructed.
C16_UnresolvedTargetFails ==
  env.target \in {"selector-none", "empty-list"} =>
    /\ pc \in {1, Failed}
    /\ ~ready
    /\ readyEvents = << >>
    /\ ~bindDone /\ listeners = {}
    /\ \A s \in Subsystems : constructed[s] = 0

C16_Witness ==
  /\ env.target = "empty-list"
  /\ pc = Failed
  /\ ~ready /\ ~container

\* The steps of setup in the order the specification gives them.
C19_Order ==
  << "container", "bind", "ui", "media", "source", "fullscreen", "captions",
     "controls", "ads", "previewThumbnails", "storage", "console", "ready" >>

\* Whether a step of setup has been carried out, read off the Instance.
C19_Carried(step) ==
  CASE step = "container" -> container
    [] step = "bind"      -> bindDone
    [] step = "ui"        -> ui
    [] step = "media"     -> mediaDone
    [] step = "ready"     -> ready
    [] OTHER              -> constructed[step] > 0

\* C19: setup carries out its steps strictly in the order container,
\* listeners, UI, media, Source, Fullscreen, Captions, Controls, Ads,
\* PreviewThumbnails, Storage, Diagnostics, ready; the listeners are bound
\* before any Subsystem is constructed, and each Subsystem is constructed
\* exactly once.
C19_SetupInOrderEachOnce ==
  /\ \A i, j \in 1..Len(C19_Order) :
       (i < j /\ C19_Carried(C19_Order[j])) => C19_Carried(C19_Order[i])
  /\ \A s \in Subsystems :
       /\ constructed[s] <= 1
       /\ constructed[s] > 0 => bindDone
       /\ pc = Done => constructed[s] = 1

C19_Witness ==
  /\ pc = Done /\ ready /\ bindDone
  /\ \A s \in Subsystems : constructed[s] = 1

\* C17: every write to `source`, that of setup included, is delegated to the
\* change routine of the Source subsystem, and never reaches the Provider's
\* own source value.
C17_WritesReachSourceSubsystem ==
  sourceWrite.by # "none" => sourceWrite.callee = "source.change"

\* C18: on an Instance whose construction has completed, toggleCaptions,
\* setCaptions, togglePip and toggleAirplay each reach a routine of their
\* Subsystem, and not the block the constructor left.
C18_TogglesReachSubsystem ==
  (pc = Done /\ lastToggle.method # "none") => lastToggle.reached = "subsystem"


====
